---- MODULE Spec2Model ----
(***************************************************************************)
(* AEGIS: anomaly scoring and malware correlation for industrial devices.  *)
(*                                                                         *)
(* The model follows the Flask handlers of aegis/routes.py, the scorer of  *)
(* aegis/ml_model.py, the alert log helpers of aegis/utils.py, the tables  *)
(* of aegis/models.py and the socket alert of app.py.                      *)
(*                                                                         *)
(* Time is counted in ticks of 1/TicksPerSecond second.  datetime.now()    *)
(* has sub-second resolution, the alert log keeps whole seconds only.      *)
(* Scores are counted in tenths, so that -0.2 is the integer -2.           *)
(***************************************************************************)
EXTENDS Integers, Sequences, FiniteSets, Bags, TLC

VARIABLES
    now,                     \* wall clock, in ticks
    alertsLog,               \* the file ALERTS_LOG_PATH: whether it exists, its lines
    modelFile,               \* content of MODEL_PATH: "absent", "corrupt" or a model
    isolation_forest_model,  \* the module-level model of ml_model.py ("None" or a model)
    devices,                 \* table devices, keyed by its unique device_id
    sensor_data,             \* table sensor_data, a bag of rows
    anomalies,               \* table anomalies, a bag of rows
    resp,                    \* what the last call returned
    emitted,                 \* the 'aegis_alert' events sent on the socket so far
    inflight,                \* requests being handled: where each is in its code
    model_metadata,          \* table model_metadata, its rows in the order of creation
    nowB,                    \* replay: the wall clock of the second run
    stB,                     \* replay: the detection state of the second run
    respB                    \* replay: what the second run's last call returned

replica == <<nowB, stB, respB>>

vars == <<now, alertsLog, modelFile, isolation_forest_model, devices, sensor_data,
          anomalies, resp, emitted, inflight, model_metadata, nowB, stB, respB>>

----------------------------------------------------------------------------
(* Program constants (aegis/config.py)                                     *)

MALWARE_WINDOW_SECONDS == 300

MALWARE_THRESHOLD_COUNT == 3

\* ANOMALY_THRESHOLD = -0.2, in tenths
ANOMALY_THRESHOLD == -2

REQUIRED_FIELDS == {"device_id", "timestamp", "temperature", "pressure", "rpm"}

\* datetime.now() is finer than the "%S" of the log format: two ticks a second
TicksPerSecond == 2

WindowTicks == MALWARE_WINDOW_SECONDS * TicksPerSecond

----------------------------------------------------------------------------
(* Bounds                                                                  *)

\* calls of one behaviour that add to what is stored: lines of the alert log and
\* rows of table sensor_data, taken together
MaxStored == 4

\* readings of a replayed sequence that get stored
MaxReplay == 2

\* events sent on the socket
MaxEmitted == 1

\* rows of table model_metadata
MaxSaved == 2

\* The instants at which calls arrive: the start, half a second later, and one
\* window and half a second after the start.  The last is exactly one window
\* after the second and more than one window after the first.
Instants == {0, 1, WindowTicks + 1}

\* Device ids as character sequences: "D1" is a textual prefix of "D10".
D1 == <<"D", "1">>

D10 == <<"D", "1", "0">>

Devices == {D1, D10}

\* "timestamp" values of readings, in epoch seconds
ReadingTimes == {0}

\* Feature vectors (temperature, pressure, rpm), by what the model makes of them
Features == {"normal", "edge", "odd", "huge"}

Models == {"m1"}

\* Models trained while the server runs
NewModels == {"m2"}

\* Threads of the server that handle requests at the same time
Workers == {"w1", "w2"}

\* A thread that handles no request
Idle == [pc |-> "idle"]

----------------------------------------------------------------------------
(* Alert log: utils.log_anomaly and utils.check_for_malware                *)

\* datetime.now().strftime("%Y-%m-%d %H:%M:%S"): the fraction of a second is dropped
FormatTimestamp(t) == t \div TicksPerSecond

\* datetime.strptime(timestamp_str, "%Y-%m-%d %H:%M:%S"): whole seconds, as ticks
ParseTimestamp(s) == s * TicksPerSecond

\* The text of a line after its "[timestamp] ANOMALY DETECTED: " head
LineText(device_id) == <<"Device ">> \o device_id \o <<", Score: ">>

\* needle in hay, as Python's `in` on strings
Contains(hay, needle) ==
    \E i \in 1..(Len(hay) - Len(needle) + 1) :
        SubSeq(hay, i, i + Len(needle) - 1) = needle

\* f"Device {device_id}" in line
LineMatchesDevice(line, device_id) == Contains(line.text, <<"Device ">> \o device_id)

\* The line log_anomaly appends; `at` is the instant of the event itself, which the
\* file does not hold (it is kept to state the claims, no operator of the code reads it)
LogLine(device_id, t) ==
    [timestamp |-> FormatTimestamp(t), text |-> LineText(device_id), at |-> t,
     device_id |-> device_id]

\* log_time >= window_start, with window_start = now - MALWARE_WINDOW_SECONDS
InWindow(line, t) == ParseTimestamp(line.timestamp) >= t - WindowTicks

\* The file before anything is written to it
NoAlertsLog == [exists |-> FALSE, lines |-> <<>>]

\* with open(ALERTS_LOG_PATH, "a") as f: f.write(log_message + "\n")
AppendLine(log, line) == [exists |-> TRUE, lines |-> Append(log.lines, line)]

\* anomaly_count of check_for_malware
AnomalyCount(device_id, log, t) ==
    IF ~log.exists THEN 0
    ELSE Cardinality({i \in 1..Len(log.lines) :
                        /\ InWindow(log.lines[i], t)
                        /\ LineMatchesDevice(log.lines[i], device_id)})

\* A threshold that has to be exceeded
IsPotentialMalware_Strict(anomaly_count) == anomaly_count > MALWARE_THRESHOLD_COUNT

\* is_potential_malware = anomaly_count >= MALWARE_THRESHOLD_COUNT
IsPotentialMalware(anomaly_count) == anomaly_count >= MALWARE_THRESHOLD_COUNT

\* check_for_malware(device_id) -> (is_potential_malware, anomaly_count)
check_for_malware(device_id, log, t) ==
    LET c == AnomalyCount(device_id, log, t)
    IN  [is_potential_malware |-> IsPotentialMalware(c), anomaly_count |-> c]

----------------------------------------------------------------------------
(* Scorer: ml_model.load_model, get_model, predict_anomaly                 *)

\* load_model: the new value of isolation_forest_model
LoadedModel(file) == IF file \in Models \cup NewModels THEN file ELSE "None"

\* get_model: the new value of isolation_forest_model (loaded lazily)
GetModel(model, file) == IF model = "None" THEN LoadedModel(file) ELSE model

\* Scoring raises: a feature is missing from the data point (KeyError), or sklearn
\* rejects the vector (a finite number too large for float32, or a value that is
\* no number)
ScoreRaises(model, data) ==
    data.fields # REQUIRED_FIELDS \/ data.features \in {"huge", "text"}

\* model.score_samples(features)[0], in tenths
ScoreSamples(model, features) ==
    CASE features = "normal" -> -1
      [] features = "edge"   -> ANOMALY_THRESHOLD
      [] OTHER               -> -3

\* A score equal to the threshold taken for an anomaly
IsAnomaly_Inclusive(anomaly_score) == anomaly_score <= ANOMALY_THRESHOLD

\* is_anomaly = anomaly_score < ANOMALY_THRESHOLD
IsAnomaly(anomaly_score) == anomaly_score < ANOMALY_THRESHOLD

\* predict_anomaly(data_point) -> (is_anomaly, anomaly_score, message)
predict_anomaly(model, data) ==
    IF model = "None"
    THEN [is_anomaly |-> FALSE, anomaly_score |-> 0, message |-> "Model not loaded"]
    ELSE LET s == ScoreSamples(model, data.features)
         IN  IF ScoreRaises(model, data)
             THEN [is_anomaly |-> FALSE, anomaly_score |-> 0,
                   message |-> "Error during prediction"]
             ELSE [is_anomaly |-> IsAnomaly(s), anomaly_score |-> s,
                   message |-> IF IsAnomaly(s) THEN "Anomaly detected"
                               ELSE "Normal data point"]

----------------------------------------------------------------------------
(* Tables: aegis/models.py                                                 *)

NoDevice == [status |-> "absent", last_seen |-> -1, name |-> "None",
             description |-> "None"]

\* A device that is made active again whenever it is seen
SeenDevice_Reactivated(row, t) ==
    [row EXCEPT !.status = "active", !.last_seen = t]

\* Device.get_or_create followed by update_last_seen
SeenDevice(row, t) ==
    [row EXCEPT !.status = IF row.status = "absent" THEN "active" ELSE row.status,
                !.last_seen = t]

\* SensorData.from_dict
SensorRow(data) == [device_id |-> data.device_id, timestamp |-> data.timestamp]

\* An anomaly row that never carries the malware mark
AnomalyRow_Unmarked(data, is_malware) ==
    [device_id |-> data.device_id, timestamp |-> data.timestamp,
     is_malware |-> FALSE]

\* Anomaly.from_dict
AnomalyRow(data, is_malware) ==
    [device_id |-> data.device_id, timestamp |-> data.timestamp,
     is_malware |-> is_malware]

----------------------------------------------------------------------------
(* Requests                                                                *)

\* A reading as posted: `fields` are the keys of the JSON body, `features` says
\* what the values of temperature, pressure and rpm are
Readings ==
    [device_id : Devices, timestamp : ReadingTimes, features : Features,
     fields : {REQUIRED_FIELDS}]
    \cup
    [device_id : Devices, timestamp : ReadingTimes, features : {"normal"},
     fields : {REQUIRED_FIELDS \ {"rpm"}}]

\* `verdict`: the reply carries is_anomaly and anomaly_score;
\* `checked`: check_for_malware was called while the reply was made
NoResp ==
    [op |-> "none", code |-> 0, message |-> "", device_id |-> <<>>, timestamp |-> -1,
     verdict |-> FALSE, is_anomaly |-> FALSE, anomaly_score |-> 0,
     is_potential_malware |-> FALSE, anomaly_count |-> 0, checked |-> FALSE,
     sample_count |-> 0, n_samples |-> 0]

Reply(op, code, message, data) ==
    [NoResp EXCEPT !.op = op, !.code = code, !.message = message,
                   !.device_id = data.device_id, !.timestamp = data.timestamp]

\* What a request handler reads and writes besides the clock and the model file
State ==
    [alertsLog |-> alertsLog, isolation_forest_model |-> isolation_forest_model,
     devices |-> devices, sensor_data |-> sensor_data, anomalies |-> anomalies]

\* The state create_app leaves: load_model() has run, nothing is stored yet
FreshState(file) ==
    [alertsLog |-> NoAlertsLog, isolation_forest_model |-> LoadedModel(file),
     devices |-> [d \in Devices |-> NoDevice], sensor_data |-> EmptyBag,
     anomalies |-> EmptyBag]

\* Lines and rows stored so far
Stored(st) == Len(st.alertsLog.lines) + BagCardinality(st.sensor_data)

\* A detection that ran the malware check for every reading
Correlate_Always(is_anomaly, device_id, log, t) ==
    LET m == check_for_malware(device_id, log, t)
    IN  [is_potential_malware |-> m.is_potential_malware,
         anomaly_count |-> m.anomaly_count, checked |-> TRUE]

\* The malware check of detect_anomaly: is_potential_malware and anomaly_count keep
\* their defaults unless the reading is an anomaly
Correlate(is_anomaly, device_id, log, t) ==
    IF is_anomaly
    THEN LET m == check_for_malware(device_id, log, t)
         IN  [is_potential_malware |-> m.is_potential_malware,
              anomaly_count |-> m.anomaly_count, checked |-> TRUE]
    ELSE [is_potential_malware |-> FALSE, anomaly_count |-> 0, checked |-> FALSE]

\* A detection that recorded its anomaly in the alert log, as log_anomaly would
DetectAlertsLog_Logging(log, is_anomaly, data, t) ==
    IF is_anomaly THEN AppendLine(log, LogLine(data.device_id, t)) ELSE log

\* What detect_anomaly does to the alert log: it neither calls log_anomaly nor
\* writes the file itself
DetectAlertsLog(log, is_anomaly, data, t) == log

\* detect_anomaly from the call of predict_anomaly on (routes.py:138-187), p being
\* what predict_anomaly returned: the reply, the state it leaves
detect_scored(data, t, p, st) ==
    LET c == Correlate(p.is_anomaly, data.device_id, st.alertsLog, t)
        seen == SeenDevice(st.devices[data.device_id], t)
    IN  [resp |-> [Reply("detect", 200, p.message, data) EXCEPT
                       !.verdict = TRUE,
                       !.is_anomaly = p.is_anomaly,
                       !.anomaly_score = p.anomaly_score,
                       !.is_potential_malware = c.is_potential_malware,
                       !.anomaly_count = c.anomaly_count,
                       !.checked = c.checked],
         st |-> [alertsLog |-> DetectAlertsLog(st.alertsLog, p.is_anomaly, data, t),
                 isolation_forest_model |-> st.isolation_forest_model,
                 devices |-> [st.devices EXCEPT ![data.device_id] =
                     IF c.is_potential_malware
                     THEN [seen EXCEPT !.status = "compromised"] ELSE seen],
                 sensor_data |-> st.sensor_data (+) SetToBag({SensorRow(data)}),
                 anomalies |-> IF p.is_anomaly
                     THEN st.anomalies (+)
                          SetToBag({AnomalyRow(data, c.is_potential_malware)})
                     ELSE st.anomalies],
         stores |-> TRUE]

\* A detection that gets or creates the device before it asks for the model
detect_anomaly_DeviceFirst(data, t, file, st) ==
    LET model == GetModel(st.isolation_forest_model, file) IN
    IF data.fields # REQUIRED_FIELDS
    THEN [resp |-> Reply("detect", 400, "Missing required field", data),
          st |-> st, stores |-> FALSE]
    ELSE IF model = "None"
    THEN [resp |-> Reply("detect", 400, "No trained model available", data),
          st |-> [st EXCEPT !.isolation_forest_model = model,
                            !.devices[data.device_id] = SeenDevice(@, t)],
          stores |-> FALSE]
    ELSE detect_scored(data, t, predict_anomaly(model, data),
                       [st EXCEPT !.isolation_forest_model = model])

\* detect_anomaly, POST /api/detect, at instant t: the reply, the state it leaves and
\* whether it stored a row
detect_anomaly(data, t, file, st) ==
    LET model == GetModel(st.isolation_forest_model, file) IN
    IF data.fields # REQUIRED_FIELDS
    THEN [resp |-> Reply("detect", 400, "Missing required field", data),
          st |-> st, stores |-> FALSE]
    ELSE IF model = "None"
    THEN [resp |-> Reply("detect", 400, "No trained model available", data),
          st |-> [st EXCEPT !.isolation_forest_model = model], stores |-> FALSE]
    ELSE detect_scored(data, t, predict_anomaly(model, data),
                       [st EXCEPT !.isolation_forest_model = model])

TypeOK ==
    /\ now \in Instants
    /\ nowB \in Instants
    /\ alertsLog.exists \in BOOLEAN
    /\ Stored(State) <= MaxStored
    /\ modelFile \in Models \cup NewModels \cup {"absent", "corrupt"}
    /\ isolation_forest_model \in Models \cup NewModels \cup {"None"}
    /\ DOMAIN devices = Devices

Init ==
    /\ now = 0
    /\ modelFile \in Models \cup {"absent", "corrupt"}
    /\ alertsLog = FreshState(modelFile).alertsLog
    /\ isolation_forest_model = FreshState(modelFile).isolation_forest_model
    /\ devices = FreshState(modelFile).devices
    /\ sensor_data = FreshState(modelFile).sensor_data
    /\ anomalies = FreshState(modelFile).anomalies
    /\ resp = NoResp
    /\ emitted = <<>>
    /\ inflight = [w \in Workers |-> Idle]
    /\ model_metadata = <<>>
    /\ nowB = 0
    /\ stB = FreshState(modelFile)
    /\ respB = NoResp

\* The wall clock moves on
Tick ==
    /\ \E t \in Instants : t > now /\ now' = t
    /\ UNCHANGED <<alertsLog, modelFile, isolation_forest_model, devices,
                   sensor_data, anomalies, resp, emitted, inflight, model_metadata,
                   replica>>

\* utils.log_anomaly(data, anomaly_score)
LogAnomaly(device_id) ==
    /\ Stored(State) < MaxStored
    /\ alertsLog' = AppendLine(alertsLog, LogLine(device_id, now))
    /\ resp' = [NoResp EXCEPT !.op = "log_anomaly", !.device_id = device_id]
    /\ UNCHANGED <<now, modelFile, isolation_forest_model, devices, sensor_data,
                   anomalies, emitted, inflight, model_metadata, replica>>

\* ml_model.predict_anomaly(data_point), called on its own
PredictAnomaly(data) ==
    \E model \in {GetModel(isolation_forest_model, modelFile)} :
    \E p \in {predict_anomaly(model, data)} :
        /\ isolation_forest_model' = model
        /\ resp' = [NoResp EXCEPT !.op = "predict_anomaly",
                                  !.message = p.message,
                                  !.verdict = TRUE,
                                  !.is_anomaly = p.is_anomaly,
                                  !.anomaly_score = p.anomaly_score]
        /\ UNCHANGED <<now, alertsLog, modelFile, devices, sensor_data, anomalies,
                       emitted, inflight, model_metadata, replica>>

\* One POST /api/detect handled on the state in use
HandleDetect(data) ==
    \E o \in {detect_anomaly(data, now, modelFile, State)} :
        /\ o.stores => Stored(State) < MaxStored
        /\ alertsLog' = o.st.alertsLog
        /\ isolation_forest_model' = o.st.isolation_forest_model
        /\ devices' = o.st.devices
        /\ sensor_data' = o.st.sensor_data
        /\ anomalies' = o.st.anomalies
        /\ resp' = o.resp
        /\ UNCHANGED <<now, modelFile, emitted, inflight, model_metadata>>

\* POST /api/detect
Detect(data) == HandleDetect(data) /\ UNCHANGED replica

Next ==
    \/ Tick
    \/ \E d \in Devices : LogAnomaly(d)
    \/ \E r \in Readings : PredictAnomaly(r)
    \/ \E r \in Readings : Detect(r)

Spec == Init /\ [][Next]_vars

----------------------------------------------------------------------------
(* Replay: one sequence of readings fed to two fresh detection states, each *)
(* with a wall clock of its own                                             *)

\* The wall clock of the second run moves on
TickB ==
    /\ \E t \in Instants : t > nowB /\ nowB' = t
    /\ UNCHANGED <<now, alertsLog, modelFile, isolation_forest_model, devices,
                   sensor_data, anomalies, resp, emitted, inflight, model_metadata,
                   stB, respB>>

\* The next reading of the sequence is posted to both runs
ReplayFeed(data) ==
    /\ BagCardinality(sensor_data) < MaxReplay
    /\ HandleDetect(data)
    /\ \E o \in {detect_anomaly(data, nowB, modelFile, stB)} :
           stB' = o.st /\ respB' = o.resp
    /\ nowB' = nowB

NextReplay ==
    \/ Tick
    \/ TickB
    \/ \E r \in Readings : ReplayFeed(r)

SpecReplay == Init /\ [][NextReplay]_vars

----------------------------------------------------------------------------
(* Devices: POST /api/ingest and PUT /api/devices/<device_id> next to the    *)
(* detections.  name and description of a device row are written by         *)
(* update_device only and read by no handler that decides anything.         *)

\* An ingestion that stores the reading before it looks at its fields
ingest_data_Unchecked(data, t, st) ==
    [resp |-> Reply("ingest", 200, "Data ingested successfully", data),
     st |-> [st EXCEPT !.devices[data.device_id] = SeenDevice(@, t),
                       !.sensor_data = @ (+) SetToBag({SensorRow(data)})],
     stores |-> TRUE]

\* ingest_data, POST /api/ingest, at instant t: the reply, the state it leaves and
\* whether it stored a row
ingest_data(data, t, st) ==
    IF data.fields # REQUIRED_FIELDS
    THEN [resp |-> Reply("ingest", 400, "Missing required field", data),
          st |-> st, stores |-> FALSE]
    ELSE [resp |-> Reply("ingest", 200, "Data ingested successfully", data),
          st |-> [st EXCEPT !.devices[data.device_id] = SeenDevice(@, t),
                            !.sensor_data = @ (+) SetToBag({SensorRow(data)})],
          stores |-> TRUE]

\* valid_statuses of update_device
valid_statuses == {"active", "inactive", "compromised"}

\* The "status" of the JSON body of a PUT: not given, a valid one, or another word
StatusUpdates == {"None"} \cup valid_statuses \cup {"unknown"}

\* The "name" and the "description" of the JSON body of a PUT: not given, or a text
TextUpdates == {"None", "pump"}

\* The JSON body of a PUT
Updates == [name : TextUpdates, description : TextUpdates, status : StatusUpdates]

\* A body that gives a status only
StatusOnly(status) == [name |-> "None", description |-> "None", status |-> status]

\* The device of the session after the assignments of name and description
Assigned(row, data) ==
    [row EXCEPT !.name = IF data.name # "None" THEN data.name ELSE @,
                !.description = IF data.description # "None"
                                THEN data.description ELSE @]

\* An update whose refused status leaves the assigned name and description
\* in the table
update_device_Flushed(device_id, data, rows) ==
    LET reply(code, message) ==
            [NoResp EXCEPT !.op = "update_device", !.code = code,
                           !.message = message, !.device_id = device_id]
        device == Assigned(rows[device_id], data)
    IN  IF rows[device_id].status = "absent"
        THEN [resp |-> reply(404, "Device not found"), devices |-> rows]
        ELSE IF data.status = "None"
        THEN [resp |-> reply(200, "Device updated successfully"),
              devices |-> [rows EXCEPT ![device_id] = device]]
        ELSE IF data.status \notin valid_statuses
        THEN [resp |-> reply(400, "Invalid status"),
              devices |-> [rows EXCEPT ![device_id] = device]]
        ELSE [resp |-> reply(200, "Device updated successfully"),
              devices |-> [rows EXCEPT ![device_id] =
                                           [device EXCEPT !.status = data.status]]]

\* update_device, PUT /api/devices/<device_id>: the reply and the device rows it
\* leaves.  The assignments are made on the device of the session and reach the
\* table with the commit only: nothing is committed when the device is not
\* found or the status is not a valid one, and the session is dropped with the
\* request
update_device(device_id, data, rows) ==
    LET reply(code, message) ==
            [NoResp EXCEPT !.op = "update_device", !.code = code,
                           !.message = message, !.device_id = device_id]
        device == Assigned(rows[device_id], data)
    IN  IF rows[device_id].status = "absent"
        THEN [resp |-> reply(404, "Device not found"), devices |-> rows]
        ELSE IF data.status = "None"
        THEN [resp |-> reply(200, "Device updated successfully"),
              devices |-> [rows EXCEPT ![device_id] = device]]
        ELSE IF data.status \notin valid_statuses
        THEN [resp |-> reply(400, "Invalid status"), devices |-> rows]
        ELSE [resp |-> reply(200, "Device updated successfully"),
              devices |-> [rows EXCEPT ![device_id] =
                                           [device EXCEPT !.status = data.status]]]

\* POST /api/ingest
Ingest(data) ==
    \E o \in {ingest_data(data, now, State)} :
        /\ o.stores => Stored(State) < MaxStored
        /\ devices' = o.st.devices
        /\ sensor_data' = o.st.sensor_data
        /\ resp' = o.resp
        /\ UNCHANGED <<now, alertsLog, modelFile, isolation_forest_model, anomalies,
                       emitted, inflight, model_metadata, replica>>

\* PUT /api/devices/<device_id>
UpdateDevice(device_id, data) ==
    \E o \in {update_device(device_id, data, devices)} :
        /\ devices' = o.devices
        /\ resp' = o.resp
        /\ UNCHANGED <<now, alertsLog, modelFile, isolation_forest_model, sensor_data,
                       anomalies, emitted, inflight, model_metadata, replica>>

\* Readings that lack one of the required keys, whichever it is; what the record
\* holds for the key that is absent is read by nothing but the reply kept in resp
IncompleteReadings ==
    {[device_id |-> d, timestamp |-> t, features |-> "normal",
      fields |-> REQUIRED_FIELDS \ {f}] :
        d \in Devices, t \in ReadingTimes, f \in REQUIRED_FIELDS}

\* What is posted to /api/ingest and /api/detect
Posted == Readings \cup IncompleteReadings

NextDevices ==
    \/ \E d \in Devices : LogAnomaly(d)
    \/ \E r \in Posted : Detect(r)
    \/ \E r \in Posted : Ingest(r)
    \/ \E d \in Devices, s \in StatusUpdates : UpdateDevice(d, StatusOnly(s))

SpecDevices == Init /\ [][NextDevices]_vars

----------------------------------------------------------------------------
(* Alert sinks: the alert log written by utils.log_anomaly and the socket   *)
(* written by app.emit_anomaly_alert, each of which may fail                *)

\* alert_data of emit_anomaly_alert
AlertData(device_id, is_potential_malware) ==
    [type |-> "anomaly_alert", device_id |-> device_id,
     is_potential_malware |-> is_potential_malware]

\* app.emit_anomaly_alert(data, anomaly_score, is_potential_malware, anomaly_count);
\* `sink_ok` says whether socketio.emit returns: the function has no handler for
\* what socketio.emit raises, so the exception leaves it
EmitAnomalyAlert(device_id, is_potential_malware, sink_ok) ==
    /\ Len(emitted) < MaxEmitted
    /\ emitted' = IF sink_ok
                  THEN Append(emitted, AlertData(device_id, is_potential_malware))
                  ELSE emitted
    /\ resp' = [NoResp EXCEPT !.op = "emit_anomaly_alert", !.device_id = device_id,
                              !.message = IF sink_ok THEN "" ELSE "raised"]
    /\ UNCHANGED <<now, alertsLog, modelFile, isolation_forest_model, devices,
                   sensor_data, anomalies, inflight, model_metadata, replica>>

\* utils.log_anomaly when writing the file fails: open() raises and the file is as
\* it was, or f.write raises and the file exists without the line; the handler of
\* log_anomaly logs the error and False is returned
LogAnomalyFails(device_id) ==
    /\ alertsLog' \in {alertsLog, [alertsLog EXCEPT !.exists = TRUE]}
    /\ resp' = [NoResp EXCEPT !.op = "log_anomaly", !.device_id = device_id,
                              !.message = "Error logging anomaly"]
    /\ UNCHANGED <<now, modelFile, isolation_forest_model, devices, sensor_data,
                   anomalies, emitted, inflight, model_metadata, replica>>

NextAlerts ==
    \/ \E d \in Devices : LogAnomaly(d)
    \/ \E d \in Devices : LogAnomalyFails(d)
    \/ \E d \in Devices, m, ok \in BOOLEAN : EmitAnomalyAlert(d, m, ok)
    \/ \E r \in Readings : Detect(r)

SpecAlerts == Init /\ [][NextAlerts]_vars

----------------------------------------------------------------------------
(* Faults: readings whose values are no numbers, and a database that refuses *)
(* the commit of a detection                                                *)

\* Readings with all their keys in which temperature, pressure or rpm is a string
TextReadings ==
    [device_id : Devices, timestamp : ReadingTimes, features : {"text"},
     fields : {REQUIRED_FIELDS}]

\* A failed commit that leaves the SensorData row behind
detect_anomaly_commit_raises_Flushed(data, t, file, st) ==
    LET o == detect_anomaly(data, t, file, st) IN
    IF ~o.stores THEN o
    ELSE [resp |-> Reply("detect", 500, "Error during anomaly detection", data),
          st |-> [o.st EXCEPT !.anomalies = st.anomalies],
          stores |-> FALSE]

\* detect_anomaly when db.session.commit() of line 166 raises: the handler of the
\* inner try replies 500.  Device.get_or_create and update_last_seen have
\* committed the device row before; the rows added to the session are lost.
detect_anomaly_commit_raises(data, t, file, st) ==
    LET o == detect_anomaly(data, t, file, st) IN
    IF ~o.stores THEN o
    ELSE [resp |-> Reply("detect", 500, "Error during anomaly detection", data),
          st |-> [st EXCEPT !.isolation_forest_model = o.st.isolation_forest_model,
                            !.devices[data.device_id] = SeenDevice(@, t)],
          stores |-> FALSE]

\* POST /api/detect with a database that refuses the commit: a value it cannot
\* store in a column, a lost connection, a full disk
DetectCommitRaises(data) ==
    \E o \in {detect_anomaly_commit_raises(data, now, modelFile, State)} :
        /\ o.resp.code = 500
        /\ alertsLog' = o.st.alertsLog
        /\ isolation_forest_model' = o.st.isolation_forest_model
        /\ devices' = o.st.devices
        /\ sensor_data' = o.st.sensor_data
        /\ anomalies' = o.st.anomalies
        /\ resp' = o.resp
        /\ UNCHANGED <<now, modelFile, emitted, inflight, model_metadata, replica>>

NextFaults ==
    \/ \E d \in Devices : LogAnomaly(d)
    \/ \E r \in Readings \cup TextReadings : Detect(r)
    \/ \E r \in Readings \cup TextReadings : DetectCommitRaises(r)

SpecFaults == Init /\ [][NextFaults]_vars

----------------------------------------------------------------------------
(* Model file and model in memory: ml_model.load_model and save_model called *)
(* between requests                                                         *)

\* load_model(), as create_app calls it: the model in memory becomes what the file
\* gives, None when there is no file or joblib.load raises
LoadModel ==
    /\ isolation_forest_model' = LoadedModel(modelFile)
    /\ resp' = [NoResp EXCEPT !.op = "load_model"]
    /\ UNCHANGED <<now, alertsLog, modelFile, devices, sensor_data, anomalies,
                   emitted, inflight, model_metadata, replica>>

\* ModelMetadata.deactivate_all
deactivate_all(rows) == [i \in DOMAIN rows |-> [rows[i] EXCEPT !.is_active = FALSE]]

\* How the metadata block of save_model ends: the row is committed; there is no
\* Flask app context; deactivate_all raises; the commit of the new row raises
MetadataOutcomes == {"committed", "no_context", "deactivate_raises", "commit_raises"}

\* The metadata block of save_model: whatever it raises is logged and dropped
SavedMetadata(rows, model, outcome) ==
    CASE outcome = "committed" ->
             Append(deactivate_all(rows), [model |-> model, is_active |-> TRUE])
      [] outcome = "commit_raises" -> deactivate_all(rows)
      [] OTHER -> rows

\* ModelMetadata.get_active_model: the newest of the active rows, None without one
get_active_model(rows) ==
    LET active == {i \in DOMAIN rows : rows[i].is_active}
    IN  IF active = {} THEN "None"
        ELSE rows[CHOOSE i \in active : \A j \in active : j <= i].model

\* A save_model that reports a failure of its metadata block
save_model_returns_Strict(dumped, outcome) == dumped /\ outcome = "committed"

\* What save_model returns: True after the metadata block, however that ended,
\* False from the handler of what joblib.dump raised
save_model_returns(dumped, outcome) == dumped

\* save_model(model, ...): `dumped` says whether joblib.dump returns; when it
\* raises, the file is as it was or is left half written, and False is returned.
\* The model in memory is not assigned.
SaveModel(model, dumped, outcome) ==
    /\ (dumped /\ outcome = "committed") => Len(model_metadata) < MaxSaved
    /\ IF dumped
       THEN /\ modelFile' = model
            /\ model_metadata' = SavedMetadata(model_metadata, model, outcome)
       ELSE /\ modelFile' \in {modelFile, "corrupt"}
            /\ outcome = "committed"     \* the metadata block is not reached
            /\ model_metadata' = model_metadata
    /\ resp' = [NoResp EXCEPT !.op = "save_model",
                              !.message = IF save_model_returns(dumped, outcome)
                                          THEN "True" ELSE "False"]
    /\ UNCHANGED <<now, alertsLog, isolation_forest_model, devices, sensor_data,
                   anomalies, emitted, inflight, replica>>

NextModel ==
    \/ LoadModel
    \/ \E m \in NewModels, dumped \in BOOLEAN, outcome \in MetadataOutcomes :
           SaveModel(m, dumped, outcome)
    \/ \E r \in Readings : PredictAnomaly(r)
    \/ \E r \in Readings : Detect(r)

SpecModel == Init /\ [][NextModel]_vars

----------------------------------------------------------------------------
(* Hot swap: requests handled by threads at the same time.  A detection     *)
(* reads the model in memory twice, in detect_anomaly (routes.py:111) and   *)
(* in predict_anomaly (ml_model.py:46), each time through get_model; other  *)
(* threads run load_model and save_model meanwhile.  A thread moves from    *)
(* one read or write of the model in memory or of the model file to the     *)
(* next; what a detection does to the tables is left in one step.           *)

\* Readings posted while the model is swapped
SwapReadings ==
    {r \in Readings : /\ r.device_id = D1 /\ r.fields = REQUIRED_FIELDS
                      /\ r.features \in {"normal", "odd"}}

\* A thread at `pc` of get_model or load_model, called `at` the availability
\* check or the scoring of a detection or on its own; `loaded` is what joblib.load
\* gave, `seen` what the availability check found, `model` what scoring found
Working(pc, at, data, loaded, seen, model) ==
    [pc |-> pc, at |-> at, data |-> data, loaded |-> loaded, seen |-> seen,
     model |-> model]

\* What the steps of a thread leave alone besides the model in memory and the file
frame == <<now, alertsLog, devices, sensor_data, anomalies, emitted, model_metadata,
           replica>>

\* detect_anomaly is entered, the keys are there: get_model() of routes.py:111
StartDetect(w, data) ==
    /\ inflight[w].pc = "idle"
    /\ Stored(State) + Cardinality({v \in Workers : inflight[v].pc # "idle"})
           < MaxStored
    /\ inflight' = [inflight EXCEPT ![w] =
           Working("get_model", "check", data, "None", "None", "None")]
    /\ UNCHANGED <<modelFile, isolation_forest_model, resp, frame>>

\* get_model: if isolation_forest_model is None
GetModelTest(w) ==
    /\ inflight[w].pc = "get_model"
    /\ inflight' = [inflight EXCEPT ![w].pc =
           IF isolation_forest_model = "None" THEN "load" ELSE "return"]
    /\ UNCHANGED <<modelFile, isolation_forest_model, resp, frame>>

\* load_model is called on its own, as create_app does
StartLoad(w) ==
    /\ inflight[w].pc = "idle"
    /\ inflight' = [inflight EXCEPT ![w] =
           Working("load", "load_model", NoResp, "None", "None", "None")]
    /\ UNCHANGED <<modelFile, isolation_forest_model, resp, frame>>

\* load_model: os.path.exists and joblib.load read the file as it is now
LoadRead(w) ==
    /\ inflight[w].pc = "load"
    /\ inflight' = [inflight EXCEPT ![w].pc = "assign",
                                    ![w].loaded = LoadedModel(modelFile)]
    /\ UNCHANGED <<modelFile, isolation_forest_model, resp, frame>>

\* load_model: isolation_forest_model is assigned what was read, or None
LoadAssign(w) ==
    /\ inflight[w].pc = "assign"
    /\ isolation_forest_model' = inflight[w].loaded
    /\ IF inflight[w].at = "load_model"
       THEN /\ inflight' = [inflight EXCEPT ![w] = Idle]
            /\ resp' = [NoResp EXCEPT !.op = "load_model"]
       ELSE /\ inflight' = [inflight EXCEPT ![w].pc = "return"]
            /\ resp' = resp
    /\ UNCHANGED <<modelFile, frame>>

\* get_model returns isolation_forest_model to detect_anomaly, which replies 400 if
\* it is None and goes on to predict_anomaly and its get_model() if not
ModelChecked(w) ==
    /\ inflight[w].pc = "return" /\ inflight[w].at = "check"
    /\ IF isolation_forest_model = "None"
       THEN /\ inflight' = [inflight EXCEPT ![w] = Idle]
            /\ resp' = Reply("detect", 400, "No trained model available",
                             inflight[w].data)
       ELSE /\ inflight' = [inflight EXCEPT ![w].pc = "get_model",
                                            ![w].at = "score",
                                            ![w].seen = isolation_forest_model]
            /\ resp' = resp
    /\ UNCHANGED <<modelFile, isolation_forest_model, frame>>

\* get_model returns isolation_forest_model to predict_anomaly
ModelForScoring(w) ==
    /\ inflight[w].pc = "return" /\ inflight[w].at = "score"
    /\ inflight' = [inflight EXCEPT ![w].pc = "score",
                                    ![w].model = isolation_forest_model]
    /\ UNCHANGED <<modelFile, isolation_forest_model, resp, frame>>

\* The rest of predict_anomaly and of detect_anomaly, with the model that
\* predict_anomaly was given
FinishDetect(w) ==
    /\ inflight[w].pc = "score"
    /\ \E o \in {detect_scored(inflight[w].data, now,
                                predict_anomaly(inflight[w].model, inflight[w].data),
                                State)} :
           /\ alertsLog' = o.st.alertsLog
           /\ devices' = o.st.devices
           /\ sensor_data' = o.st.sensor_data
           /\ anomalies' = o.st.anomalies
           /\ resp' = o.resp
    /\ inflight' = [inflight EXCEPT ![w] = Idle]
    /\ UNCHANGED <<now, modelFile, isolation_forest_model, emitted, model_metadata,
                   replica>>

\* save_model: joblib.dump has opened the file and writes it
StartSave(w, model) ==
    /\ inflight[w].pc = "idle"
    /\ Len(model_metadata) < MaxSaved
    /\ modelFile' = "corrupt"
    /\ inflight' = [inflight EXCEPT ![w] =
           Working("dump", "save_model", NoResp, model, "None", "None")]
    /\ UNCHANGED <<isolation_forest_model, resp, frame>>

\* save_model: joblib.dump returns and the metadata is stored, or it raises and
\* the file stays half written
EndSave(w, dumped) ==
    /\ inflight[w].pc = "dump"
    /\ modelFile' = IF dumped THEN inflight[w].loaded ELSE "corrupt"
    /\ model_metadata' = IF dumped
           THEN SavedMetadata(model_metadata, inflight[w].loaded, "committed")
           ELSE model_metadata
    /\ resp' = [NoResp EXCEPT !.op = "save_model",
                              !.message = IF dumped THEN "True" ELSE "False"]
    /\ inflight' = [inflight EXCEPT ![w] = Idle]
    /\ UNCHANGED <<now, alertsLog, isolation_forest_model, devices, sensor_data,
                   anomalies, emitted, replica>>

NextHotSwap ==
    \E w \in Workers :
        \/ \E r \in SwapReadings : StartDetect(w, r)
        \/ GetModelTest(w)
        \/ StartLoad(w)
        \/ LoadRead(w)
        \/ LoadAssign(w)
        \/ ModelChecked(w)
        \/ ModelForScoring(w)
        \/ FinishDetect(w)
        \/ \E m \in NewModels : StartSave(w, m)
        \/ \E dumped \in BOOLEAN : EndSave(w, dumped)

SpecHotSwap == Init /\ [][NextHotSwap]_vars

----------------------------------------------------------------------------
(* Requests in flight: POST /api/detect and POST /api/ingest handled by     *)
(* threads at the same time, each with a database session of its own.  A    *)
(* thread moves from one statement of the database to the next: the query   *)
(* and the insert of Device.get_or_create, the commit of update_last_seen,  *)
(* the commit that ends the handler.                                        *)

\* Readings posted at the same time
SharedReadings ==
    {r \in Readings : r.fields = REQUIRED_FIELDS /\ r.features \in {"normal", "odd"}}

\* A thread at `pc` of the handler `op`
Handling(pc, op, data) == [pc |-> pc, op |-> op, data |-> data]

\* What the statements of a request leave alone
aside == <<now, alertsLog, modelFile, emitted, model_metadata, replica>>

\* The handler is entered and the keys are there; detect_anomaly replies 400 when
\* get_model() gives None
StartRequest(w, op, data) ==
    /\ inflight[w].pc = "idle"
    /\ Stored(State) + Cardinality({v \in Workers : inflight[v].pc # "idle"})
           < MaxStored
    /\ \E model \in {GetModel(isolation_forest_model, modelFile)} :
         IF op = "detect"
         THEN /\ isolation_forest_model' = model
              /\ IF model = "None"
                 THEN /\ inflight' = inflight
                      /\ resp' = Reply("detect", 400, "No trained model available",
                                       data)
                 ELSE /\ inflight' = [inflight EXCEPT ![w] =
                                         Handling("query", op, data)]
                      /\ resp' = resp
         ELSE /\ inflight' = [inflight EXCEPT ![w] = Handling("query", op, data)]
              /\ UNCHANGED <<isolation_forest_model, resp>>
    /\ UNCHANGED <<devices, sensor_data, anomalies, aside>>

\* Device.get_or_create: cls.query.filter_by(device_id=device_id).first()
QueryDevice(w) ==
    /\ inflight[w].pc = "query"
    /\ inflight' = [inflight EXCEPT ![w].pc =
           IF devices[inflight[w].data.device_id].status = "absent"
           THEN "insert" ELSE "update"]
    /\ UNCHANGED <<isolation_forest_model, devices, sensor_data, anomalies, resp,
                   aside>>

\* Device.get_or_create: db.session.add(device); db.session.commit().  device_id
\* is unique: when another session has committed the row meanwhile the commit
\* raises IntegrityError, which the handler turns into a reply 500
InsertDevice(w) ==
    /\ inflight[w].pc = "insert"
    /\ IF devices[inflight[w].data.device_id].status = "absent"
       THEN /\ devices' = [devices EXCEPT ![inflight[w].data.device_id].status =
                               "active"]
            /\ inflight' = [inflight EXCEPT ![w].pc = "update"]
            /\ resp' = resp
       ELSE /\ devices' = devices
            /\ inflight' = [inflight EXCEPT ![w] = Idle]
            /\ resp' = Reply(inflight[w].op, 500, "IntegrityError", inflight[w].data)
    /\ UNCHANGED <<isolation_forest_model, sensor_data, anomalies, aside>>

\* Device.update_last_seen: self.last_seen = utcnow(); db.session.commit()
UpdateLastSeen(w) ==
    /\ inflight[w].pc = "update"
    /\ devices' = [devices EXCEPT ![inflight[w].data.device_id].last_seen = now]
    /\ inflight' = [inflight EXCEPT ![w].pc = "commit"]
    /\ UNCHANGED <<isolation_forest_model, sensor_data, anomalies, resp, aside>>

\* The rest of the handler: of ingest_data the SensorData row and the commit, of
\* detect_anomaly predict_anomaly, check_for_malware, the rows, the commit
CommitRequest(w) ==
    /\ inflight[w].pc = "commit"
    /\ \E o \in {IF inflight[w].op = "detect"
                  THEN detect_scored(inflight[w].data, now,
                           predict_anomaly(GetModel(isolation_forest_model, modelFile),
                                           inflight[w].data),
                           State)
                  ELSE ingest_data(inflight[w].data, now, State)} :
           /\ devices' = o.st.devices
           /\ sensor_data' = o.st.sensor_data
           /\ anomalies' = o.st.anomalies
           /\ resp' = o.resp
    /\ inflight' = [inflight EXCEPT ![w] = Idle]
    /\ UNCHANGED <<isolation_forest_model, aside>>

NextRequests ==
    \/ \E d \in Devices : LogAnomaly(d)
    \/ \E w \in Workers :
          \/ \E op \in {"detect", "ingest"}, r \in SharedReadings :
                StartRequest(w, op, r)
          \/ QueryDevice(w)
          \/ InsertDevice(w)
          \/ UpdateLastSeen(w)
          \/ CommitRequest(w)

SpecRequests == Init /\ [][NextRequests]_vars

----------------------------------------------------------------------------
(* Trainings in flight: save_model run by threads at the same time, each     *)
(* with a database session of its own.  A thread moves from joblib.dump to   *)
(* the commit of deactivate_all and from there to the commit of its own row. *)

\* save_model: joblib.dump returns, or it raises and False is returned
Dumped(w, dumped) ==
    /\ inflight[w].pc = "dump"
    /\ modelFile' = IF dumped THEN inflight[w].loaded ELSE "corrupt"
    /\ IF dumped
       THEN /\ inflight' = [inflight EXCEPT ![w].pc = "deactivate"]
            /\ resp' = resp
       ELSE /\ inflight' = [inflight EXCEPT ![w] = Idle]
            /\ resp' = [NoResp EXCEPT !.op = "save_model", !.message = "False"]
    /\ UNCHANGED <<isolation_forest_model, frame>>

\* save_model: ModelMetadata.deactivate_all() sets every row it finds inactive
\* and commits, or raises and True is returned
DeactivateAll(w, raises) ==
    /\ inflight[w].pc = "deactivate"
    /\ IF raises
       THEN /\ model_metadata' = SavedMetadata(model_metadata, inflight[w].loaded,
                                               "deactivate_raises")
            /\ inflight' = [inflight EXCEPT ![w] = Idle]
            /\ resp' = [NoResp EXCEPT !.op = "save_model", !.message = "True"]
       ELSE /\ model_metadata' = deactivate_all(model_metadata)
            /\ inflight' = [inflight EXCEPT ![w].pc = "add"]
            /\ resp' = resp
    /\ UNCHANGED <<now, alertsLog, modelFile, isolation_forest_model, devices,
                   sensor_data, anomalies, emitted, replica>>

\* save_model: the row of the new model is added and committed, or the commit
\* raises; True is returned
AddMetadata(w, raises) ==
    /\ inflight[w].pc = "add"
    /\ model_metadata' = IF raises THEN model_metadata
                         ELSE Append(model_metadata,
                                     [model |-> inflight[w].loaded, is_active |-> TRUE])
    /\ inflight' = [inflight EXCEPT ![w] = Idle]
    /\ resp' = [NoResp EXCEPT !.op = "save_model", !.message = "True"]
    /\ UNCHANGED <<now, alertsLog, modelFile, isolation_forest_model, devices,
                   sensor_data, anomalies, emitted, replica>>

\* Rows of model_metadata that are active
ActiveRows(rows) == {i \in DOMAIN rows : rows[i].is_active}

NextTrain ==
    \/ \E r \in SwapReadings : Detect(r)
    \/ \E w \in Workers :
        \/ \E m \in NewModels : StartSave(w, m)
        \/ \E dumped \in BOOLEAN : Dumped(w, dumped)
        \/ \E raises \in BOOLEAN : DeactivateAll(w, raises)
        \/ \E raises \in BOOLEAN : AddMetadata(w, raises)

SpecTrain == Init /\ [][NextTrain]_vars

----------------------------------------------------------------------------
(* Updates: PUT /api/devices/<device_id> with every body, next to ingestion *)

NextUpdates ==
    \/ \E r \in SharedReadings : Ingest(r)
    \/ \E d \in Devices, data \in Updates : UpdateDevice(d, data)

SpecUpdates == Init /\ [][NextUpdates]_vars

----------------------------------------------------------------------------
(* Synthetic training: POST /api/train-synthetic, aegis/train_model.py.     *)
(* contamination is counted in hundredths.  For the sample counts and the   *)
(* contaminations drawn here the double arithmetic of                       *)
(* int(n_samples * (1 - contamination)) gives the integer that exact        *)
(* arithmetic gives.                                                        *)

MinSamples == 1000
MaxSamples == 50000
MinContamination == 1
MaxContamination == 50

\* sample_count of the JSON body: accepted ones and one on each side
SampleCounts == {999, 1000, 1001, 1002, 1200, 5000, 50000, 50001}

\* contamination of the JSON body, in hundredths
Contaminations == {0, 1, 10, 25, 50, 51}

\* n_normal of generate_synthetic_data
n_normal(n_samples, contamination) == (n_samples * (100 - contamination)) \div 100

\* generate_synthetic_data: the rows of each kind in the frame it returns; the
\* anomalous rows are three blocks of n_anomalous // 3 rows
generate_synthetic_data(n_samples, contamination) ==
    LET n_anomalous == n_samples - n_normal(n_samples, contamination)
    IN  [normal |-> n_normal(n_samples, contamination),
         anomalous |-> 3 * (n_anomalous \div 3)]

\* len(training_data)
RowsOf(training_data) == training_data.normal + training_data.anomalous

\* POST /api/train-synthetic: the parameters are validated, the data generated,
\* a model fitted and saved with save_model
TrainSynthetic(sample_count, contamination, model, dumped, outcome) ==
    LET reply(code, message, rows) ==
            [NoResp EXCEPT !.op = "train_synthetic", !.code = code,
                           !.message = message, !.sample_count = sample_count,
                           !.n_samples = rows]
        training_data == generate_synthetic_data(sample_count, contamination)
    IN  IF sample_count < MinSamples \/ sample_count > MaxSamples
        THEN /\ dumped /\ outcome = "committed"     \* save_model is not reached
             /\ resp' = reply(400, "Sample count must be between 1,000 and 50,000", 0)
             /\ UNCHANGED <<modelFile, model_metadata>>
             /\ UNCHANGED <<now, alertsLog, isolation_forest_model, devices,
                            sensor_data, anomalies, emitted, inflight, replica>>
        ELSE IF contamination < MinContamination \/ contamination > MaxContamination
        THEN /\ dumped /\ outcome = "committed"
             /\ resp' = reply(400, "Contamination rate must be between 0.01 and 0.5", 0)
             /\ UNCHANGED <<modelFile, model_metadata>>
             /\ UNCHANGED <<now, alertsLog, isolation_forest_model, devices,
                            sensor_data, anomalies, emitted, inflight, replica>>
        ELSE /\ (dumped /\ outcome = "committed") => Len(model_metadata) < MaxSaved
             /\ IF dumped
                THEN /\ modelFile' = model
                     /\ model_metadata' = SavedMetadata(model_metadata, model, outcome)
                ELSE /\ modelFile' \in {modelFile, "corrupt"}
                     /\ outcome = "committed"
                     /\ model_metadata' = model_metadata
             /\ resp' = IF save_model_returns(dumped, outcome)
                        THEN reply(200, "Model trained and saved successfully with synthetic data",
                                   RowsOf(training_data))
                        ELSE reply(500, "Failed to save the trained model", 0)
             /\ UNCHANGED <<now, alertsLog, isolation_forest_model, devices,
                            sensor_data, anomalies, emitted, inflight, replica>>

NextSynthetic ==
    \/ LoadModel
    \/ \E n \in SampleCounts, c \in Contaminations, m \in NewModels,
          dumped \in BOOLEAN, outcome \in MetadataOutcomes :
           TrainSynthetic(n, c, m, dumped, outcome)

SpecSynthetic == Init /\ [][NextSynthetic]_vars

----------------------------------------------------------------------------
(* Claims                                                                  *)

\* Rows of a table that belong to a device and satisfy P
RowsWhere(table, device_id, P(_)) ==
    LET S == {r \in BagToSet(table) : r.device_id = device_id /\ P(r)}
    IN  BagCardinality([r \in S |-> table[r]])

\* The last reply is the result of a detection that found an anomaly
AnomalyDetected == resp.op = "detect" /\ resp.code = 200 /\ resp.is_anomaly

\* Lines of the alert log written for a device, by the device_id they were written for
LinesOf(device_id, log) ==
    {i \in 1..Len(log.lines) : log.lines[i].device_id = device_id}

\* Events of a device whose own instant lies in [t - window, t]
EventsInWindow(device_id, log, t) ==
    Cardinality({i \in LinesOf(device_id, log) :
                    /\ log.lines[i].at >= t - WindowTicks
                    /\ log.lines[i].at <= t})

\* C1: whenever malware_threshold_count anomalies of one device lie within one
\* window, the detection that handles the last of them reports
\* is_probable_malware = true.  The anomalies are those the detections stored for
\* the device; they lie within one window by their timestamps and, the clock not
\* having passed one window since the start, by the instants they were handled at.
C1_ThresholdAnomaliesFlagged ==
    LET InWin(r) == /\ r.timestamp >= resp.timestamp - MALWARE_WINDOW_SECONDS
                    /\ r.timestamp <= resp.timestamp
    IN  ( /\ AnomalyDetected
          /\ now <= WindowTicks
          /\ RowsWhere(anomalies, resp.device_id, InWin) >= MALWARE_THRESHOLD_COUNT )
        => resp.is_potential_malware

\* C2: the count returned when an anomaly with timestamp t is handled is the
\* number of the device's recorded anomalies, the one just recorded included, whose
\* timestamp is >= t - window_seconds.
C2_CountIsRecordedAnomaliesSince ==
    LET Since(r) == r.timestamp >= resp.timestamp - MALWARE_WINDOW_SECONDS
    IN  AnomalyDetected
        => resp.anomaly_count = RowsWhere(anomalies, resp.device_id, Since)

\* C3: for a device with no prior anomalies the first anomalous reading yields
\* count = 1 and, the threshold being above 1, is_probable_malware = false.
C3_FirstAnomalyCountsOne ==
    LET AnyRow(r) == TRUE
    IN  ( /\ AnomalyDetected
          /\ RowsWhere(anomalies, resp.device_id, AnyRow) = 1
          /\ LinesOf(resp.device_id, alertsLog) = {} )
        => /\ resp.anomaly_count = 1
           /\ MALWARE_THRESHOLD_COUNT > 1 => ~resp.is_potential_malware

\* C4: at every count computation the count of a device is the number of that
\* device's anomaly events whose time lies within [now - window_seconds, now].
C4_CountIsEventsInWindow ==
    [][\A r \in Readings :
          (Detect(r) /\ resp'.checked)
          => resp'.anomaly_count = EventsInWindow(r.device_id, alertsLog, now)]_vars

\* C5: an anomaly recorded for device A never changes the count reported for
\* another device B.
C5_DevicesIndependent ==
    [][\A a \in Devices :
          LogAnomaly(a)
          => \A b \in Devices \ {a} :
                AnomalyCount(b, alertsLog', now') = AnomalyCount(b, alertsLog, now)]_vars

\* A step in which a detection scored its reading and replied with status success:
\* only such a step adds a row to sensor_data and leaves the reply of a detection
DetectionStep ==
    sensor_data' # sensor_data /\ resp'.op = "detect" /\ resp'.code = 200

\* C6: a reading that is not an anomaly gets count 0 and is_probable_malware =
\* false, the correlation check is not called for it, and no device's anomaly
\* history changes: not the alert log, not the stored anomalies, not the count any
\* device would be given.
C6_NormalReadingLeavesHistory ==
    [][(DetectionStep /\ ~resp'.is_anomaly)
          => /\ resp'.anomaly_count = 0
             /\ ~resp'.is_potential_malware
             /\ ~resp'.checked
             /\ alertsLog' = alertsLog
             /\ anomalies' = anomalies
             /\ \A d \in Devices :
                   AnomalyCount(d, alertsLog', now') = AnomalyCount(d, alertsLog, now)]_vars

\* C6, its case: a reading that is not an anomaly was handled for a device whose
\* history holds an anomaly within the window.
C6_Witness ==
    /\ resp.op = "detect" /\ resp.code = 200 /\ ~resp.is_anomaly
    /\ AnomalyCount(resp.device_id, alertsLog, now) > 0

\* C7: is_probable_malware is true exactly when the count in the window is >= 3,
\* the default threshold, with the default window of 300 seconds.
C7_MalwareIffThreshold ==
    /\ MALWARE_THRESHOLD_COUNT = 3 /\ MALWARE_WINDOW_SECONDS = 300
    /\ resp.op = "detect" => (resp.is_potential_malware <=> resp.anomaly_count >= 3)

\* C7, its case: a detection counted exactly 3 anomalies and flagged malware.
C7_Witness ==
    /\ AnomalyDetected /\ resp.checked
    /\ resp.anomaly_count = 3 /\ resp.is_potential_malware

\* C8: for every score the loaded model returns, is_anomaly is true exactly when
\* the score is below ANOMALY_THRESHOLD; a score equal to it is no anomaly.
C8_AnomalyIffBelowThreshold ==
    resp.message \in {"Anomaly detected", "Normal data point"}
    => /\ resp.is_anomaly <=> resp.anomaly_score < ANOMALY_THRESHOLD
       /\ resp.anomaly_score = ANOMALY_THRESHOLD => ~resp.is_anomaly

\* C8, its case: the model returned a score equal to the threshold.
C8_Witness ==
    /\ resp.op \in {"detect", "predict_anomaly"}
    /\ resp.message = "Normal data point"
    /\ resp.anomaly_score = ANOMALY_THRESHOLD /\ ~resp.is_anomaly

\* C9: with no model loaded and none to load, scoring a reading never returns a
\* verdict (is_anomaly = false with a score): it returns a condition of its own.
C9_NoModelNoVerdict ==
    ( /\ isolation_forest_model = "None" /\ modelFile \notin Models
      /\ resp.op \in {"detect", "predict_anomaly"}
      /\ resp.message # "Missing required field" )
    => ~resp.verdict

\* What a detection reports: its status, is_anomaly, the count and the malware flag
Result(r) ==
    <<r.code, r.is_anomaly, r.anomaly_score, r.anomaly_count, r.is_potential_malware>>

\* C10: one sequence of readings fed to two fresh detection states at any two
\* wall-clock times yields the same results, reading by reading.
C10_ReplayDeterministic == Result(resp) = Result(respB)

\* C10, its case: two readings were replayed, the last an anomaly, with the two
\* runs at different wall-clock times.
C10_Witness ==
    /\ AnomalyDetected /\ respB.op = "detect"
    /\ now # nowB
    /\ BagCardinality(sensor_data) >= 2 /\ BagCardinality(anomalies) >= 2

\* C11: a detection that flags malware commits the device's status 'compromised'
\* together with an Anomaly row marked is_malware = true; a detection that does
\* not flag malware sets no device's status to 'compromised'.
C11_FlagCommitsCompromised ==
    [][DetectionStep
          => /\ resp'.is_potential_malware
                => /\ devices'[resp'.device_id].status = "compromised"
                   /\ anomalies' = anomalies (+)
                          SetToBag({[device_id |-> resp'.device_id,
                                     timestamp |-> resp'.timestamp,
                                     is_malware |-> TRUE]})
             /\ ~resp'.is_potential_malware
                => \A d \in Devices :
                      devices'[d].status = "compromised"
                      => devices[d].status = "compromised"]_vars

\* C11, its case: a detection flagged malware for a device and its state holds the
\* device as compromised and the anomaly row with the mark.
C11_Witness ==
    /\ AnomalyDetected /\ resp.is_potential_malware
    /\ devices[resp.device_id].status = "compromised"
    /\ BagIn([device_id |-> resp.device_id, timestamp |-> resp.timestamp,
              is_malware |-> TRUE], anomalies)

\* C12: a device that is 'compromised' leaves that status by no ingest and no
\* detect request, whatever the reading and the device it is for: its status
\* changes only in a step of PUT /api/devices/<device_id> for this device that
\* carries a status and succeeds.
C12_CompromisedOneWay ==
    [][\A d \in Devices :
          (devices[d].status = "compromised" /\ devices'[d].status # "compromised")
          => /\ resp'.op = "update_device" /\ resp'.code = 200
             /\ resp'.device_id = d
             /\ devices'[d].status \in valid_statuses]_vars

\* C12, its case: an ingest or a detection without a malware flag was handled for
\* a device that was compromised before it, and the device still is.
C12_Witness ==
    /\ resp.op \in {"ingest", "detect"} /\ resp.code = 200
    /\ ~resp.is_potential_malware
    /\ devices[resp.device_id].status = "compromised"

C19_SinkFailureSwallowed ==
    resp.op \in {"log_anomaly", "emit_anomaly_alert"} => resp.message # "raised"

\* C14: in every state the program reaches, a reading that lacks any of device_id,
\* timestamp, temperature, pressure and rpm is rejected by POST /api/detect and by
\* POST /api/ingest with an error reply, and the state the handler leaves is the
\* state it found: no device row is created or updated, no SensorData or Anomaly
\* row is stored, the anomaly history stays as it is.
C14_MissingFieldRejectedFirst ==
    \A r \in Posted :
        r.fields # {"device_id", "timestamp", "temperature", "pressure", "rpm"}
        => \A o \in {detect_anomaly(r, now, modelFile, State),
                     ingest_data(r, now, State)} :
              /\ o.resp.code = 400 /\ o.resp.message = "Missing required field"
              /\ ~o.resp.verdict
              /\ o.st = State /\ ~o.stores

\* C14, its case: a reading without one of its fields was posted for a device not
\* seen before while a model was there to score it, and it was rejected with no
\* row for the device.
C14_Witness ==
    /\ resp.op \in {"ingest", "detect"}
    /\ resp.code = 400 /\ resp.message = "Missing required field"
    /\ modelFile \in Models
    /\ devices[resp.device_id].status = "absent"

\* C15: a reading in which temperature, pressure or rpm is present but no number
\* is rejected by POST /api/detect with an error reply, whether the database takes
\* the commit or not: no device row is created or updated, no SensorData is
\* stored, and no success with a verdict is returned.
C15_NonNumericRejectedFirst ==
    [][\A r \in TextReadings :
          (Detect(r) \/ DetectCommitRaises(r))
          => /\ resp'.code = 400
             /\ ~resp'.verdict
             /\ UNCHANGED <<devices, sensor_data>>]_vars

\* C16: a reading that could not be scored, predict_anomaly having met an
\* exception, is never answered with a success that says is_anomaly = false.
C16_UnscoredNeverNormal ==
    (resp.op = "detect" /\ resp.message = "Error during prediction")
    => ~(resp.code = 200 /\ resp.verdict /\ ~resp.is_anomaly)

\* C18: when the database refuses to store a detection, POST /api/detect replies
\* what it replies when the detection is stored: the classification it computed.
C18_StoreFailureKeepsResult ==
    [][\A r \in Readings :
          DetectCommitRaises(r)
          => resp' = detect_anomaly(r, now, modelFile, State).resp]_vars

\* C17: when load_model cannot load the file, missing or unreadable, while a model
\* is loaded, the model in memory stays the one that was loaded.
C17_FailedLoadKeepsModel ==
    [][( /\ resp'.op = "load_model"
         /\ isolation_forest_model # "None"
         /\ modelFile \in {"absent", "corrupt"} )
       => isolation_forest_model' = isolation_forest_model]_vars

\* C20: a detection in flight scores with the model its availability check found,
\* whatever other threads load and save meanwhile: never with another model and
\* never with no model.
C20_HotSwapAtomic ==
    \A w \in Workers :
        inflight[w].pc = "score"
        => /\ inflight[w].model # "None"
           /\ inflight[w].model = inflight[w].seen

\* Detections of anomalous readings of a device that are in flight
AnomaliesInFlight(device_id) ==
    {w \in Workers : /\ inflight[w].pc # "idle"
                     /\ inflight[w].op = "detect"
                     /\ inflight[w].data.device_id = device_id
                     /\ inflight[w].data.features = "odd"}

\* C21: when several anomalous readings of one device with no other history are
\* handled at the same time, the counts they report are those of a serial order
\* of these readings: each detection counts its own anomaly and at most the
\* anomalies recorded for the device so far, none lost and none counted twice.
C21_CountsOfASerialOrder ==
    [][( /\ DetectionStep /\ resp'.is_anomaly
         /\ Cardinality(AnomaliesInFlight(resp'.device_id)) >= 2
         /\ LinesOf(resp'.device_id, alertsLog) = {} )
       => LET AnyRow(r) == TRUE
          IN  /\ resp'.anomaly_count >= 1
              /\ resp'.anomaly_count <= RowsWhere(anomalies', resp'.device_id, AnyRow)
      ]_vars

\* C22: a POST /api/detect that replies success has committed exactly one
\* SensorData row for its reading, and an Anomaly row, marked is_malware as the
\* reply says is_potential_malware, exactly when is_anomaly is true; one that
\* replies an error after it started to process has committed neither.
C22_ReadingStoredAtomically ==
    [][resp'.op = "detect"
          => /\ resp'.code = 200
                => /\ sensor_data' = sensor_data (+)
                         SetToBag({[device_id |-> resp'.device_id,
                                    timestamp |-> resp'.timestamp]})
                   /\ anomalies' =
                         IF resp'.is_anomaly
                         THEN anomalies (+)
                              SetToBag({[device_id |-> resp'.device_id,
                                         timestamp |-> resp'.timestamp,
                                         is_malware |-> resp'.is_potential_malware]})
                         ELSE anomalies
             /\ resp'.code # 200
                => sensor_data' = sensor_data /\ anomalies' = anomalies]_vars

\* C22, its case: a detection replied an error after it had committed the device
\* row, with rows of earlier detections stored.
C22_Witness ==
    /\ resp.op = "detect" /\ resp.code = 500
    /\ devices[resp.device_id].status # "absent"
    /\ BagCardinality(sensor_data) >= 1 /\ BagCardinality(anomalies) >= 1

\* C23: save_model returns True exactly when the model file was written: it
\* returns True also when its metadata block failed or found no app context, and
\* when writing the file fails it returns False and no ModelMetadata row is
\* touched.
C23_TrueIffFileWritten ==
    [][\A m \in NewModels, dumped \in BOOLEAN, outcome \in MetadataOutcomes :
          SaveModel(m, dumped, outcome)
          => /\ resp'.message = "True" <=> dumped
             /\ dumped => modelFile' = m
             /\ ~dumped => model_metadata' = model_metadata]_vars

\* C23, its case: save_model returned True with the file written although the
\* commit of its metadata row had failed, leaving no active row.
C23_Witness ==
    /\ resp.op = "save_model" /\ resp.message = "True"
    /\ modelFile \in NewModels
    /\ Len(model_metadata) >= 1
    /\ \A i \in DOMAIN model_metadata : ~model_metadata[i].is_active

\* C24: a PUT /api/devices/<device_id> for a known device with a status outside
\* {active, inactive, compromised} is answered 400 and leaves every device row
\* as it was, whatever name and description the same body gives; with a valid
\* status the status of the row becomes the one supplied.
C24_InvalidStatusChangesNothing ==
    \A d \in Devices, data \in Updates :
        devices[d].status # "absent"
        => \E o \in {update_device(d, data, devices)} :
              /\ data.status \notin valid_statuses \cup {"None"}
                 => o.resp.code = 400 /\ o.devices = devices
              /\ data.status \in valid_statuses
                 => /\ o.resp.code = 200
                    /\ o.devices[d].status = data.status
                    /\ \A e \in Devices \ {d} : o.devices[e] = devices[e]

\* A refused update of a device that an earlier update has named
C24_Witness ==
    /\ resp.op = "update_device" /\ resp.code = 400
    /\ devices[resp.device_id].status = "inactive"
    /\ devices[resp.device_id].name = "pump"
    /\ devices[resp.device_id].description = "None"

\* C25: the frame that generate_synthetic_data returns for a request that
\* POST /api/train-synthetic accepts has exactly as many rows as the request's
\* sample_count.
C25_RowsAsRequested ==
    (resp.op = "train_synthetic" /\ resp.code = 200)
    => resp.n_samples = resp.sample_count

\* C26: once a training has saved a model and its metadata, a detection that is
\* answered has scored with the model that the active metadata row describes:
\* the model in memory is that model.
C26_DetectsWithActiveModel ==
    ( /\ resp.op = "detect" /\ resp.code = 200
      /\ get_active_model(model_metadata) # "None" )
    => isolation_forest_model = get_active_model(model_metadata)

\* C27: whatever save_model calls have run, one after another or at the same
\* time, at most one row of model_metadata is active.
C27_OneActiveModel == Cardinality(ActiveRows(model_metadata)) <= 1

\* C28: requests for one device that are handled at the same time, the device
\* never seen before, all succeed: none of them is answered 500 because the
\* row of the device was created by another one meanwhile.
C28_ConcurrentCreateSucceeds ==
    (resp.op \in {"ingest", "detect"} /\ devices[resp.device_id].status # "absent")
    => resp.code # 500

\* C29: a POST /api/detect that finds no model available at its check is
\* answered with an error and leaves the tables as they were: no device row is
\* created, no last_seen and no status changes, no sensor_data and no anomaly
\* row is stored.
C29_NoModelChangesNothing ==
    [][(resp'.op = "detect" /\ resp'.message = "No trained model available")
       => /\ resp'.code = 400
          /\ isolation_forest_model' = "None"
          /\ devices' = devices
          /\ sensor_data' = sensor_data
          /\ anomalies' = anomalies
          /\ alertsLog' = alertsLog]_vars

\* A detection refused for want of a model, of a device never seen, after a
\* save_model that left the file unreadable
C29_Witness ==
    /\ resp.op = "detect" /\ resp.code = 400
    /\ resp.message = "No trained model available"
    /\ modelFile = "corrupt"
    /\ devices[resp.device_id].status = "absent"
    /\ \E d \in Devices : devices[d].status # "absent"

====
